---- MODULE Spec2Model ----
(***************************************************************************)
(* Model of scheduleLib.Schedule (src/scheduleLib/__init__.py): a weekly   *)
(* event table with a due-event scanner (tick), id allocation (add),       *)
(* descriptor escaping and a JSON export/import of the table.              *)
(*                                                                         *)
(* Python strings are modelled as sequences of one-character strings, so   *)
(* that replace/split/join act character by character.  Python lists are   *)
(* sequences (index i of Python is index i+1 here).                        *)
(***************************************************************************)
EXTENDS Integers, Sequences, FiniteSets, TLC

VARIABLES eventSchedule,   \* self.eventSchedule: <<timestamps, descriptors, ids>>
          jsonTimings,     \* self.jsonTimings: the pending serialized form (JSON text)
          prevTimestamp,   \* self.prevTimestamp: the tick cursor
          ret,             \* the last call: its name, arguments, result / raised error;
                           \* for an add run statement by statement, its frame
          runLo,           \* history: the cursor at the first tick of the current run
          tickLog          \* history: <<clock, returned table positions>> of each tick of the run

vars == <<eventSchedule, jsonTimings, prevTimestamp, ret, runLo, tickLog>>

-----------------------------------------------------------------------------
(* Bounds of the model *)

MaxStrLen == 3      \* longest text handed to the codec calls
MaxEvents == 2      \* most events the table holds
MaxSecond == 2      \* the clock reads Monday 00:00:00 .. 00:00:MaxSecond
MaxRun == 3         \* most ticks recorded in one run of the tick history

-----------------------------------------------------------------------------
(* Python str helpers *)

BS == "\\"          \* the backslash character

Alphabet == {":", BS, "?", "a"}

RECURSIVE StrUpTo(_)
StrUpTo(n) ==
  IF n = 0 THEN {<<>>}
  ELSE LET shorter == StrUpTo(n - 1)
       IN  shorter \cup {<<c>> \o s : c \in Alphabet, s \in {t \in shorter : Len(t) = n - 1}}

StartsWith(text, old) ==
  /\ Len(text) >= Len(old)
  /\ SubSeq(text, 1, Len(old)) = old

\* str.replace(old, new): every non-overlapping occurrence, scanning left to right
RECURSIVE Replace(_, _, _)
Replace(text, old, new) ==
  IF Len(text) < Len(old) THEN text
  ELSE IF StartsWith(text, old)
       THEN new \o Replace(SubSeq(text, Len(old) + 1, Len(text)), old, new)
       ELSE <<Head(text)>> \o Replace(Tail(text), old, new)

\* the `old in text` substring test
RECURSIVE Contains(_, _)
Contains(text, old) ==
  IF Len(text) < Len(old) THEN FALSE
  ELSE StartsWith(text, old) \/ Contains(Tail(text), old)

\* str.split(sep) for a one-character sep: the list of fields, empty ones included
RECURSIVE SplitFrom(_, _, _)
SplitFrom(text, sep, field) ==
  IF text = <<>> THEN <<field>>
  ELSE IF Head(text) = sep
       THEN <<field>> \o SplitFrom(Tail(text), sep, <<>>)
       ELSE SplitFrom(Tail(text), sep, Append(field, Head(text)))

Split(text, sep) == SplitFrom(text, sep, <<>>)

-----------------------------------------------------------------------------
(* Descriptor escaping *)

encodeSafeEventDSCNoBackslash(text) ==
  IF Contains(text, <<":">>) THEN Replace(text, <<":">>, <<BS, "?">>) ELSE text

\* (variant) only the first ":" is replaced: text.replace(":", "\\?", 1)
encodeSafeEventDSCFirstColon(text) ==
  LET t1 == Replace(text, <<BS>>, <<BS, BS>>)
      RECURSIVE Once(_)
      Once(t) == IF t = <<>> THEN <<>>
                 ELSE IF Head(t) = ":" THEN <<BS, "?">> \o Tail(t)
                      ELSE <<Head(t)>> \o Once(Tail(t))
  IN  Once(t1)

encodeSafeEventDSC(text) ==
  LET t1 == Replace(text, <<BS>>, <<BS, BS>>)
  IN  IF Contains(t1, <<":">>) THEN Replace(t1, <<":">>, <<BS, "?">>) ELSE t1

decodeSafeEventDSCBackslashFirst(text) ==
  LET t1 == Replace(text, <<BS, BS>>, <<BS>>)
  IN  IF Contains(t1, <<BS, "?">>) THEN Replace(t1, <<BS, "?">>, <<":">>) ELSE t1

decodeSafeEventDSC(text) ==
  LET t1 == IF Contains(text, <<BS, "?">>) THEN Replace(text, <<BS, "?">>, <<":">>) ELSE text
  IN  Replace(t1, <<BS, BS>>, <<BS>>)

-----------------------------------------------------------------------------
(* The clock *)

\* (variant) the hour weighted by 36000
WeeklyTimestampHourSlip(t) == t[1] * 100000 + t[2] * 36000 + t[3] * 60 + t[4]

\* (variant) the weekday weighted by 10000, less than the seconds of a day
WeeklyTimestampNarrowDay(t) == t[1] * 10000 + t[2] * 3600 + t[3] * 60 + t[4]

\* weekday*100000 + hour*3600 + minute*60 + second of a reading <<weekday, hour, minute, second>>
WeeklyTimestamp(t) == t[1] * 100000 + t[2] * 3600 + t[3] * 60 + t[4]

\* what datetime.now(timezone.utc) may read
ClockReadings == {<<0, 0, 0, s>> : s \in 0..MaxSecond}

\* readings over the whole week: every weekday, at the first and last hour,
\* minute and second
WeekReadings == {<<wd, h, m, sec>> : wd \in 0..6, h \in {0, 23}, m \in {0, 59}, sec \in {0, 59}}

-----------------------------------------------------------------------------
(* Python values *)

None == <<>>                       \* an argument left at its default None
Some(x) == <<x>>                   \* an argument that was passed
TruthyIntNotNone(opt) == opt # None            \* (variant) the test "x is not None"
TruthyInt(opt) == opt # None /\ opt[1] # 0      \* bool(x) of an int argument: None and 0 are falsy
TruthyStr(opt) == opt # None /\ opt[1] # <<>>   \* bool(x) of a str argument: None and "" are falsy

NoneResult == [kind |-> "None"]
ListResult(l) == [kind |-> "list", val |-> l]
Raised(e) == [kind |-> "raised", err |-> e]

InList(x, list) == \E i \in DOMAIN list : list[i] = x

\* list.index(x): the first position holding x (the caller has checked x is in the list)
IndexOf(x, list) == CHOOSE i \in DOMAIN list : list[i] = x /\ \A j \in 1..(i - 1) : list[j] # x

\* (variant) list.pop() without the index: the last element goes
PopLast(list, i) == SubSeq(list, 1, Len(list) - 1)

\* list.pop(i)
Pop(list, i) == SubSeq(list, 1, i - 1) \o SubSeq(list, i + 1, Len(list))

-----------------------------------------------------------------------------
(* The table *)

EmptySchedule == <<<<>>, <<>>, <<>>>>

allowedEventModes == <<<<"b">>, <<"l">>, <<"s">>, <<"r">>, <<"y">>, <<"m">>>>

RandLo == 10000
RandHi == 99999
MaxTries == 100

\* the three fields of a stored descriptor, each decoded
DecodedFields(dsc) ==
  LET parts == Split(dsc, ":")
  IN  [k \in DOMAIN parts |-> decodeSafeEventDSC(parts[k])]

\* the tuple (timestamp, [mode, params, sampleName], eventID) of table position i
EventTuple(es, i) == <<es[1][i], DecodedFields(es[2][i]), es[3][i]>>

\* building that tuple indexes the descriptor and the id list at i: both must be that long
TupleReadable(es, i) == i <= Len(es[2]) /\ i <= Len(es[3])

Descriptor(mode, params, sampleName) ==
  mode \o <<":">> \o encodeSafeEventDSC(params) \o <<":">> \o encodeSafeEventDSC(sampleName)

\* the random source of one add call: draws 1..k read c, every later draw reads d
Draw(oracle, j) == IF j <= oracle.k THEN oracle.c ELSE oracle.d

\* the fallback scan from i: the first integer >= i that is not in ids
RECURSIVE LinearScan(_, _)
LinearScan(ids, i) == IF InList(i, ids) THEN LinearScan(ids, i + 1) ELSE i

\* (variant) the first draw is taken without looking at the table
NewEventIDFirstDraw(ids, oracle) == Draw(oracle, 1)

\* the allocation loop.  The while condition tests draw 1, then draw 2, ... and
\* the loop ends at the first draw that is not in ids; draw n is tested only for
\* n <= MaxTries, because drawing number MaxTries + 1 makes n > 100 and the
\* fallback scan replaces that draw.
NewEventID(ids, oracle) ==
  LET free == {n \in 1..MaxTries : ~InList(Draw(oracle, n), ids)}
  IN  IF free = {} THEN LinearScan(ids, 0)
      ELSE Draw(oracle, CHOOSE n \in free : \A m \in free : n <= m)

\* (variant) the mode is looked at only after the timestamp and descriptor were appended
AddOutcomeLateCheck(es, timestamp, mode, params, sampleName, oracle) ==
  LET grown == <<Append(es[1], timestamp),
                 Append(es[2], Descriptor(mode, params, sampleName)), es[3]>>
  IN  IF ~InList(mode, allowedEventModes)
      THEN [raised |-> "ValueError", es |-> grown, result |-> None]
      ELSE [raised |-> "", es |-> <<grown[1], grown[2], Append(es[3], NewEventID(es[3], oracle))>>,
            result |-> Some(NewEventID(es[3], oracle))]

\* (variant) the id is put in front of the id list: insert(0, newEventID)
AddOutcomeIdInFront(es, timestamp, mode, params, sampleName, oracle) ==
  IF ~InList(mode, allowedEventModes)
  THEN [raised |-> "ValueError", es |-> es, result |-> None]
  ELSE [raised |-> "",
        es |-> <<Append(es[1], timestamp),
                 Append(es[2], Descriptor(mode, params, sampleName)),
                 <<NewEventID(es[3], oracle)>> \o es[3]>>,
        result |-> Some(NewEventID(es[3], oracle))]

\* add(): the outcome [raised, es, result] on table es
AddOutcome(es, timestamp, mode, params, sampleName, oracle) ==
  IF ~InList(mode, allowedEventModes)
  THEN [raised |-> "ValueError", es |-> es, result |-> None]
  ELSE LET id == NewEventID(es[3], oracle)
       IN  [raised |-> "",
            es |-> <<Append(es[1], timestamp),
                     Append(es[2], Descriptor(mode, params, sampleName)),
                     Append(es[3], id)>>,
            result |-> Some(id)]

\* (variant) the id list is not popped
RemoveOutcomeKeepsId(es, eventID) ==
  IF ~InList(eventID, es[3]) THEN [raised |-> "ValueError", es |-> es]
  ELSE LET rmID == IndexOf(eventID, es[3])
       IN  [raised |-> "", es |-> <<Pop(es[1], rmID), Pop(es[2], rmID), es[3]>>]

\* remove(): the outcome [raised, es] on table es
RemoveOutcome(es, eventID) ==
  IF ~InList(eventID, es[3]) THEN [raised |-> "ValueError", es |-> es]
  ELSE LET rmID == IndexOf(eventID, es[3])
       IN  IF rmID > Len(es[1]) THEN [raised |-> "IndexError", es |-> es]
           ELSE IF rmID > Len(es[2])
                THEN [raised |-> "IndexError", es |-> <<Pop(es[1], rmID), es[2], es[3]>>]
                ELSE [raised |-> "",
                      es |-> <<Pop(es[1], rmID), Pop(es[2], rmID), Pop(es[3], rmID)>>]

\* (variant) the upper end of the window is left out: timestamp < crrntTimestamp
RECURSIVE TickScanStrictUpper(_, _, _, _, _)
TickScanStrictUpper(es, prev, crrntTimestamp, i, toExecute) ==
  IF i > Len(es[1]) THEN ListResult(toExecute)
  ELSE IF es[1][i] > prev /\ es[1][i] < crrntTimestamp
       THEN TickScanStrictUpper(es, prev, crrntTimestamp, i + 1, Append(toExecute, EventTuple(es, i)))
       ELSE TickScanStrictUpper(es, prev, crrntTimestamp, i + 1, toExecute)

\* the scan of tick(), at table position i with toExecute collected so far
RECURSIVE TickScan(_, _, _, _, _)
TickScan(es, prev, crrntTimestamp, i, toExecute) ==
  IF i > Len(es[1]) THEN ListResult(toExecute)
  ELSE IF es[1][i] > prev /\ es[1][i] <= crrntTimestamp
       THEN IF TupleReadable(es, i)
            THEN TickScan(es, prev, crrntTimestamp, i + 1, Append(toExecute, EventTuple(es, i)))
            ELSE Raised("IndexError")
       ELSE TickScan(es, prev, crrntTimestamp, i + 1, toExecute)

\* (variant) the lower end of the window is included: timestamp >= prevTimestamp
TickResultInclusive(es, prev, crrntTimestamp) == TickScan(es, prev - 1, crrntTimestamp, 1, <<>>)

\* tick(): the returned list (or the error raised) when the clock reads crrntTimestamp
TickResult(es, prev, crrntTimestamp) == TickScan(es, prev, crrntTimestamp, 1, <<>>)

\* re.search for a pattern without metacharacters: the pattern occurs in the text
ReSearch(pattern, text) == Contains(text, pattern)

\* the regex branch of getEvent, at table position eN with r collected so far
RECURSIVE RegexScan(_, _, _, _)
RegexScan(es, eventDscRegex, eN, r) ==
  IF eN > Len(es[1]) THEN ListResult(r)
  ELSE IF eN > Len(es[2]) THEN Raised("IndexError")
       ELSE IF ReSearch(eventDscRegex, es[2][eN])
            THEN IF TupleReadable(es, eN)
                 THEN RegexScan(es, eventDscRegex, eN + 1, Append(r, EventTuple(es, eN)))
                 ELSE Raised("IndexError")
            ELSE RegexScan(es, eventDscRegex, eN + 1, r)

\* (variant) the timestamp branch tried before the id branch
getEventTimestampFirst(es, eventID, eventTimestamp, eventDscRegex) ==
  IF TruthyInt(eventTimestamp) /\ InList(eventTimestamp[1], es[1])
  THEN ListResult(<<EventTuple(es, IndexOf(eventTimestamp[1], es[1]))>>)
  ELSE IF TruthyInt(eventID) /\ InList(eventID[1], es[3])
       THEN ListResult(<<EventTuple(es, IndexOf(eventID[1], es[3]))>>)
       ELSE IF TruthyStr(eventDscRegex)
            THEN RegexScan(es, eventDscRegex[1], 1, <<>>)
            ELSE NoneResult

\* getEvent(): eventID, eventTimestamp, eventDscRegex are None or Some(value)
getEvent(es, eventID, eventTimestamp, eventDscRegex) ==
  IF TruthyInt(eventID) /\ InList(eventID[1], es[3])
  THEN LET evN == IndexOf(eventID[1], es[3])
       IN  IF evN <= Len(es[1]) /\ TupleReadable(es, evN)
           THEN ListResult(<<EventTuple(es, evN)>>)
           ELSE Raised("IndexError")
  ELSE IF TruthyInt(eventTimestamp) /\ InList(eventTimestamp[1], es[1])
       THEN LET evN == IndexOf(eventTimestamp[1], es[1])
            IN  IF TupleReadable(es, evN)
                THEN ListResult(<<EventTuple(es, evN)>>)
                ELSE Raised("IndexError")
       ELSE IF TruthyStr(eventDscRegex)
            THEN RegexScan(es, eventDscRegex[1], 1, <<>>)
            ELSE NoneResult

-----------------------------------------------------------------------------
(* JSON text.  The text is a sequence of tokens: brackets, commas, integer     *)
(* literals and string literals; a string literal carries its characters as   *)
(* written between the quotes, escapes included.  Whitespace is left out.      *)

LB == [k |-> "["]
RB == [k |-> "]"]
Comma == [k |-> ","]
IntTok(n) == [k |-> "int", v |-> n]
StrTok(chars) == [k |-> "str", v |-> chars]

\* json.dumps of a str: backslash and double quote get a backslash in front
RECURSIVE JsonEscape(_)
JsonEscape(text) ==
  IF text = <<>> THEN <<>>
  ELSE IF Head(text) = BS \/ Head(text) = "\""
       THEN <<BS, Head(text)>> \o JsonEscape(Tail(text))
       ELSE <<Head(text)>> \o JsonEscape(Tail(text))

\* json.loads of a string literal: [ok, val]; a backslash must be followed by an
\* escapable character (of the characters modelled: backslash or double quote)
RECURSIVE JsonUnescape(_)
JsonUnescape(chars) ==
  IF chars = <<>> THEN [ok |-> TRUE, val |-> <<>>]
  ELSE IF Head(chars) = BS
       THEN IF Len(chars) >= 2 /\ (chars[2] = BS \/ chars[2] = "\"")
            THEN LET rest == JsonUnescape(SubSeq(chars, 3, Len(chars)))
                 IN  [ok |-> rest.ok, val |-> <<chars[2]>> \o rest.val]
            ELSE [ok |-> FALSE, val |-> <<>>]
       ELSE LET rest == JsonUnescape(Tail(chars))
            IN  [ok |-> rest.ok, val |-> <<Head(chars)>> \o rest.val]

\* the elements of a list, comma separated
RECURSIVE JoinTokens(_)
JoinTokens(items) ==
  IF items = <<>> THEN <<>>
  ELSE IF Len(items) = 1 THEN Head(items)
       ELSE Head(items) \o <<Comma>> \o JoinTokens(Tail(items))

DumpsIntList(list) == <<LB>> \o JoinTokens([i \in DOMAIN list |-> <<IntTok(list[i])>>]) \o <<RB>>
DumpsStrList(list) ==
  <<LB>> \o JoinTokens([i \in DOMAIN list |-> <<StrTok(JsonEscape(list[i]))>>]) \o <<RB>>
DumpsLists(lists) == <<LB>> \o JoinTokens(lists) \o <<RB>>

\* json.dumps(self.eventSchedule): a list of ints, a list of strs, a list of ints
Dumps(es) == DumpsLists(<<DumpsIntList(es[1]), DumpsStrList(es[2]), DumpsIntList(es[3])>>)

ParseFail == [ok |-> FALSE, val |-> <<>>, next |-> 0]

\* one int or string literal at position i
ParseAtom(toks, i) ==
  IF i > Len(toks) THEN ParseFail
  ELSE IF toks[i].k = "int" THEN [ok |-> TRUE, val |-> toks[i].v, next |-> i + 1]
       ELSE IF toks[i].k = "str"
            THEN LET u == JsonUnescape(toks[i].v)
                 IN  IF u.ok THEN [ok |-> TRUE, val |-> u.val, next |-> i + 1] ELSE ParseFail
            ELSE ParseFail

\* the rest of a list of literals after an element: "," element ... "]"
RECURSIVE ParseAtomsRest(_, _, _)
ParseAtomsRest(toks, i, acc) ==
  IF i > Len(toks) THEN ParseFail
  ELSE IF toks[i].k = "]" THEN [ok |-> TRUE, val |-> acc, next |-> i + 1]
       ELSE IF toks[i].k = ","
            THEN LET a == ParseAtom(toks, i + 1)
                 IN  IF a.ok THEN ParseAtomsRest(toks, a.next, Append(acc, a.val)) ELSE ParseFail
            ELSE ParseFail

\* a list of literals at position i
ParseAtomList(toks, i) ==
  IF i + 1 > Len(toks) \/ toks[i].k # "[" THEN ParseFail
  ELSE IF toks[i + 1].k = "]" THEN [ok |-> TRUE, val |-> <<>>, next |-> i + 2]
       ELSE LET a == ParseAtom(toks, i + 1)
            IN  IF a.ok THEN ParseAtomsRest(toks, a.next, <<a.val>>) ELSE ParseFail

\* the rest of the outer list after an element
RECURSIVE ParseListsRest(_, _, _)
ParseListsRest(toks, i, acc) ==
  IF i > Len(toks) THEN ParseFail
  ELSE IF toks[i].k = "]" THEN [ok |-> TRUE, val |-> acc, next |-> i + 1]
       ELSE IF toks[i].k = ","
            THEN LET a == ParseAtomList(toks, i + 1)
                 IN  IF a.ok THEN ParseListsRest(toks, a.next, Append(acc, a.val)) ELSE ParseFail
            ELSE ParseFail

\* json.loads of a text holding a list of lists of literals: [ok, val]; ok is
\* FALSE where json.loads raises JSONDecodeError (empty text, a bracket missing,
\* a bad escape, text after the document)
Loads(toks) ==
  IF Len(toks) < 2 \/ toks[1].k # "[" THEN [ok |-> FALSE, val |-> <<>>]
  ELSE LET r == IF toks[2].k = "]" THEN [ok |-> TRUE, val |-> <<>>, next |-> 3]
                ELSE LET a == ParseAtomList(toks, 2)
                     IN  IF a.ok THEN ParseListsRest(toks, a.next, <<a.val>>) ELSE ParseFail
       IN  IF r.ok /\ r.next = Len(toks) + 1 THEN [ok |-> TRUE, val |-> r.val]
           ELSE [ok |-> FALSE, val |-> <<>>]

\* (variant) the id list is taken from index 0 as well
ImportOutcomeWrongIndex(es, text) ==
  LET tData == Loads(text)
  IN  IF ~tData.ok THEN [raised |-> "JSONDecodeError", es |-> es]
      ELSE IF Len(tData.val) < 3 THEN [raised |-> "IndexError", es |-> es]
      ELSE [raised |-> "", es |-> <<tData.val[1], tData.val[2], tData.val[1]>>]

\* importTimings(): the outcome [raised, es]; the three assignments run one after
\* the other, so a document with fewer than three lists fails part way
ImportOutcome(es, text) ==
  LET tData == Loads(text)
  IN  IF ~tData.ok THEN [raised |-> "JSONDecodeError", es |-> es]
      ELSE IF Len(tData.val) < 1 THEN [raised |-> "IndexError", es |-> es]
      ELSE IF Len(tData.val) < 2
           THEN [raised |-> "IndexError", es |-> <<tData.val[1], es[2], es[3]>>]
      ELSE IF Len(tData.val) < 3
           THEN [raised |-> "IndexError", es |-> <<tData.val[1], tData.val[2], es[3]>>]
      ELSE [raised |-> "", es |-> <<tData.val[1], tData.val[2], tData.val[3]>>]

-----------------------------------------------------------------------------
(* Inputs of the calls *)

AddTimes == {0, 3600}
ModeInputs == {<<"b">>, <<"x">>}
\* <<params, sampleName>> pairs
TextInputs == {<<<<":">>, <<BS>>>>, <<<<BS, "?">>, <<"a", ":">>>>}
DrawInputs == {RandLo, RandHi}
\* random sources: a first draw d; or k draws of c and then d
Oracles == {[k |-> 0, c |-> d, d |-> d] : d \in DrawInputs}
             \cup {[k |-> k, c |-> RandLo, d |-> RandHi] : k \in {MaxTries - 1, MaxTries}}
\* every draw reads RandLo
SameDraw == [k |-> 0, c |-> RandLo, d |-> RandLo]
IdInputs == DrawInputs \cup {0, 1, 2}

\* files readFromFile may find: a well-formed document, and malformed ones (the
\* outer list too short or too long, lists of different lengths, a text json
\* cannot parse)
GoodFile == Dumps(<<<<1, 0>>, <<Descriptor(<<"b">>, <<":">>, <<>>), <<"l", ":", ":">>>>, <<7, RandLo>>>>)
ShortFile == DumpsLists(<<DumpsIntList(<<1>>), DumpsStrList(<<<<"b", ":", ":">>>>)>>)
OneListFile == DumpsLists(<<DumpsIntList(<<1>>)>>)
LongFile == DumpsLists(<<DumpsIntList(<<1>>), DumpsStrList(<<<<"b", ":", ":">>>>),
                         DumpsIntList(<<7>>), DumpsIntList(<<9>>)>>)
RaggedFile == DumpsLists(<<DumpsIntList(<<1, 0>>), DumpsStrList(<<<<"b", ":", ":">>>>),
                           DumpsIntList(<<>>)>>)
TruncatedFile == SubSeq(GoodFile, 1, Len(GoodFile) - 1)
BadEscapeFile == DumpsLists(<<DumpsIntList(<<1>>), <<LB, StrTok(<<"b", ":", BS, "?", ":">>), RB>>,
                              DumpsIntList(<<7>>)>>)
EmptyFile == <<>>
FileContents == {GoodFile, ShortFile, OneListFile, LongFile, RaggedFile, TruncatedFile,
                 BadEscapeFile, EmptyFile}

-----------------------------------------------------------------------------
(* The state after Schedule() *)

Init ==
  /\ eventSchedule = EmptySchedule
  /\ jsonTimings = <<>>
  /\ \E t \in ClockReadings : prevTimestamp = WeeklyTimestamp(t)
  /\ ret = [op |-> "__init__"]
  /\ runLo = prevTimestamp
  /\ tickLog = <<>>

\* Schedule() at any moment of the week
InitWeek ==
  /\ eventSchedule = EmptySchedule
  /\ jsonTimings = <<>>
  /\ \E t \in WeekReadings : prevTimestamp = WeeklyTimestamp(t)
  /\ ret = [op |-> "__init__"]
  /\ runLo = prevTimestamp
  /\ tickLog = <<>>

\* the lists stay within the model's size
Room(es) == Len(es[1]) < MaxEvents /\ Len(es[2]) < MaxEvents /\ Len(es[3]) < MaxEvents

\* a change of the table ends the current run of ticks
RunAfter(es2) ==
  IF es2 = eventSchedule THEN UNCHANGED <<runLo, tickLog>>
  ELSE runLo' = prevTimestamp /\ tickLog' = <<>>

-----------------------------------------------------------------------------
(* The calls *)

Add(timestamp, mode, params, sampleName, oracle) ==
  /\ Room(eventSchedule)
  /\ \E o \in {AddOutcome(eventSchedule, timestamp, mode, params, sampleName, oracle)} :
         /\ eventSchedule' = o.es
         /\ ret' = [op |-> "add", timestamp |-> timestamp, mode |-> mode, params |-> params,
                    sampleName |-> sampleName, raised |-> o.raised, result |-> o.result]
         /\ RunAfter(o.es)
  /\ UNCHANGED <<jsonTimings, prevTimestamp>>

Remove(eventID) ==
  /\ \E o \in {RemoveOutcome(eventSchedule, eventID)} :
         /\ eventSchedule' = o.es
         /\ ret' = [op |-> "remove", eventID |-> eventID, raised |-> o.raised]
         /\ RunAfter(o.es)
  /\ UNCHANGED <<jsonTimings, prevTimestamp>>

\* (variant) the cursor is moved only when the clock has not gone back
TickForwardOnly(reading) ==
  /\ \E crrntTimestamp \in {WeeklyTimestamp(reading)} :
     \E r \in {TickResult(eventSchedule, prevTimestamp, crrntTimestamp)} :
         /\ ret' = [op |-> "tick", reading |-> reading, prev |-> prevTimestamp,
                    now |-> crrntTimestamp, result |-> r]
         /\ prevTimestamp' = IF crrntTimestamp < prevTimestamp THEN prevTimestamp
                              ELSE crrntTimestamp
         /\ runLo' = prevTimestamp' /\ tickLog' = <<>>
  /\ UNCHANGED <<eventSchedule, jsonTimings>>

Tick(reading) ==
  /\ \E crrntTimestamp \in {WeeklyTimestamp(reading)} :
     \E r \in {TickResult(eventSchedule, prevTimestamp, crrntTimestamp)} :
         /\ ret' = [op |-> "tick", reading |-> reading, prev |-> prevTimestamp,
                    now |-> crrntTimestamp, result |-> r]
         /\ IF r.kind = "raised"
            THEN UNCHANGED <<prevTimestamp, runLo, tickLog>>
            ELSE /\ prevTimestamp' = crrntTimestamp
                 /\ IF crrntTimestamp < prevTimestamp \/ eventSchedule = EmptySchedule
                    THEN runLo' = crrntTimestamp /\ tickLog' = <<>>
                    ELSE IF Len(tickLog) >= MaxRun
                         THEN runLo' = prevTimestamp /\ tickLog' = <<<<crrntTimestamp, r.val>>>>
                         ELSE runLo' = runLo /\ tickLog' = Append(tickLog, <<crrntTimestamp, r.val>>)
  /\ UNCHANGED <<eventSchedule, jsonTimings>>

\* add() statement by statement.  While a call runs, ret is its frame: pc is
\* the statement it stands at, n and newEventID and i are its locals.
Idle == IF ret.op = "add" THEN ret.pc = "return" ELSE TRUE
Running == IF ret.op = "add" THEN ret.pc # "return" ELSE FALSE

\* (variant) the fallback is taken one draw later: n > 101
FallsBackLate(n) == n > MaxTries + 1

\* if(n > 100)
FallsBack(n) == n > MaxTries

\* from the mode check to the first draw
AddEnter(timestamp, mode, params, sampleName, drawn) ==
  /\ Idle
  /\ Len(eventSchedule[3]) <= MaxEvents
  /\ IF ~InList(mode, allowedEventModes)
     THEN /\ ret' = [op |-> "add", pc |-> "return", timestamp |-> timestamp, mode |-> mode,
                     params |-> params, sampleName |-> sampleName,
                     raised |-> "ValueError", result |-> None, n |-> 0, newEventID |-> 0, i |-> 0]
          /\ UNCHANGED <<eventSchedule, runLo, tickLog>>
     ELSE /\ eventSchedule' = <<Append(eventSchedule[1], timestamp),
                                Append(eventSchedule[2], Descriptor(mode, params, sampleName)),
                                eventSchedule[3]>>
          /\ ret' = [op |-> "add", pc |-> "while", timestamp |-> timestamp, mode |-> mode,
                     params |-> params, sampleName |-> sampleName,
                     raised |-> "", result |-> None, n |-> 1, newEventID |-> drawn, i |-> 0]
          /\ RunAfter(eventSchedule')
  /\ UNCHANGED <<jsonTimings, prevTimestamp>>

\* the test of the while loop and one pass through its body
AddWhile(drawn) ==
  /\ Running /\ ret.pc = "while"
  /\ IF ~InList(ret.newEventID, eventSchedule[3])
     THEN ret' = [ret EXCEPT !.pc = "append"]
     ELSE ret' = [ret EXCEPT !.newEventID = drawn, !.n = ret.n + 1,
                             !.pc = IF FallsBack(ret.n + 1) THEN "scan" ELSE "while"]
  /\ UNCHANGED <<eventSchedule, jsonTimings, prevTimestamp, runLo, tickLog>>

\* the test of the inner loop and its body, or the assignment and break after it
AddScan ==
  /\ Running /\ ret.pc = "scan"
  /\ IF InList(ret.i, eventSchedule[3])
     THEN ret' = [ret EXCEPT !.i = ret.i + 1]
     ELSE ret' = [ret EXCEPT !.newEventID = ret.i, !.pc = "append"]
  /\ UNCHANGED <<eventSchedule, jsonTimings, prevTimestamp, runLo, tickLog>>

\* the append of the id and the return
AddAppend ==
  /\ Running /\ ret.pc = "append"
  /\ eventSchedule' = <<eventSchedule[1], eventSchedule[2],
                        Append(eventSchedule[3], ret.newEventID)>>
  /\ ret' = [ret EXCEPT !.pc = "return", !.result = Some(ret.newEventID)]
  /\ RunAfter(eventSchedule')
  /\ UNCHANGED <<jsonTimings, prevTimestamp>>

GetEvent(eventID, eventTimestamp, eventDscRegex) ==
  /\ ret' = [op |-> "getEvent", eventID |-> eventID, eventTimestamp |-> eventTimestamp,
             eventDscRegex |-> eventDscRegex,
             result |-> getEvent(eventSchedule, eventID, eventTimestamp, eventDscRegex)]
  /\ UNCHANGED <<eventSchedule, jsonTimings, prevTimestamp, runLo, tickLog>>

ExportTimings ==
  /\ jsonTimings' = Dumps(eventSchedule)
  /\ ret' = [op |-> "exportTimings"]
  /\ UNCHANGED <<eventSchedule, prevTimestamp, runLo, tickLog>>

ImportTimings ==
  /\ \E o \in {ImportOutcome(eventSchedule, jsonTimings)} :
         /\ eventSchedule' = o.es
         /\ ret' = [op |-> "importTimings", raised |-> o.raised]
         /\ RunAfter(o.es)
  /\ UNCHANGED <<jsonTimings, prevTimestamp>>

\* the file's text becomes the pending serialized form; the table is not touched
ReadFromFile(content) ==
  /\ jsonTimings' = content
  /\ ret' = [op |-> "readFromFile"]
  /\ UNCHANGED <<eventSchedule, prevTimestamp, runLo, tickLog>>

EncodeCall(text) ==
  /\ ret' = [op |-> "encodeSafeEventDSC", text |-> text, result |-> encodeSafeEventDSC(text)]
  /\ UNCHANGED <<eventSchedule, jsonTimings, prevTimestamp, runLo, tickLog>>

DecodeCall(text) ==
  /\ ret' = [op |-> "decodeSafeEventDSC", text |-> text, result |-> decodeSafeEventDSC(text)]
  /\ UNCHANGED <<eventSchedule, jsonTimings, prevTimestamp, runLo, tickLog>>

-----------------------------------------------------------------------------
(* Specifications *)

AnyAdd ==
  \E timestamp \in AddTimes, text \in TextInputs :
       \/ \E oracle \in Oracles : Add(timestamp, <<"b">>, text[1], text[2], oracle)
       \/ \E mode \in ModeInputs : Add(timestamp, mode, text[1], text[2], SameDraw)

AnyRemove == \E eventID \in IdInputs : Remove(eventID)

\* the codec calls on every text up to MaxStrLen characters
AnyEncode == \E text \in StrUpTo(MaxStrLen) : EncodeCall(text)
AnyDecode == \E text \in StrUpTo(MaxStrLen) : DecodeCall(text)

NextCodec == AnyEncode \/ AnyDecode
SpecCodec == Init /\ [][NextCodec]_vars

\* add and remove calls on a table that started empty
NextAR == AnyAdd \/ AnyRemove
SpecAR == Init /\ [][NextAR]_vars

\* add and tick calls, the events at the moments the clock can read
AddForTick ==
  \E timestamp \in {WeeklyTimestamp(t) : t \in ClockReadings} :
       Add(timestamp, <<"b">>, <<":">>, <<BS>>, SameDraw)
AnyTick == \E reading \in ClockReadings : Tick(reading)

NextTick == AddForTick \/ AnyTick
SpecTick == Init /\ [][NextTick]_vars

\* add, remove, export and import of what was exported
AddForIO == \E text \in TextInputs : Add(3600, <<"b">>, text[1], text[2], SameDraw)
RemoveForIO == \E eventID \in {RandLo, 0, 2} : Remove(eventID)

NextIO == AddForIO \/ RemoveForIO \/ ExportTimings \/ ImportTimings
SpecIO == Init /\ [][NextIO]_vars

\* files read into the pending form and imported
AnyRead == \E content \in FileContents : ReadFromFile(content)

NextFiles == AnyRead \/ ImportTimings \/ ExportTimings \/ AnyRemove
SpecFiles == Init /\ [][NextFiles]_vars

\* every call
QueryInputs == {<<None, None, None>>, <<Some(RandLo), None, None>>, <<Some(0), None, None>>,
                <<None, Some(3600), None>>, <<None, Some(0), None>>,
                <<None, None, Some(<<"a">>)>>, <<Some(2), Some(1), Some(<<"b", ":">>)>>,
                <<Some(0), Some(0), Some(<<>>)>>}
AnyGetEvent == \E q \in QueryInputs : GetEvent(q[1], q[2], q[3])
ReadForAll == \E content \in {GoodFile, ShortFile, RaggedFile, EmptyFile} : ReadFromFile(content)

Next == AddForIO \/ RemoveForIO \/ AnyTick \/ AnyGetEvent \/ ExportTimings \/ ImportTimings \/ ReadForAll
Spec == Init /\ [][Next]_vars

\* add, remove and getEvent with every combination of selectors: none, falsy,
\* and one that some tables hold (or match) and others do not
AddForQuery ==
  \/ Add(0, <<"b">>, <<":">>, <<BS>>, SameDraw)
  \/ Add(3600, <<"b">>, <<BS, "?">>, <<"a", ":">>, SameDraw)
IdSelectors == {None, Some(0), Some(RandLo)}
TimestampSelectors == {None, Some(0), Some(3600)}
RegexSelectors == {None, Some(<<>>), Some(<<"a">>)}
QueryEvent ==
  \E eventID \in IdSelectors, eventTimestamp \in TimestampSelectors,
     eventDscRegex \in RegexSelectors :
       GetEvent(eventID, eventTimestamp, eventDscRegex)

NextQuery == AddForQuery \/ RemoveForIO \/ QueryEvent
SpecQuery == Init /\ [][NextQuery]_vars

\* the calls that can follow one another without a file being read: the table
\* is imported only from what exportTimings wrote
AddForCursor == Add(MaxSecond, <<"b">>, <<":">>, <<BS>>, SameDraw)
RemoveForCursor == Remove(RandLo)
GetEventForCursor == \E eventID \in {None, Some(RandLo)} : GetEvent(eventID, None, None)

NextCursor ==
  \/ AddForCursor \/ RemoveForCursor \/ GetEventForCursor
  \/ ExportTimings \/ ImportTimings \/ AnyTick
SpecCursor == Init /\ [][NextCursor]_vars

\* add, remove, tick, getEvent and exportTimings, with calls that raise: an add
\* with a mode outside the allow-set, a remove of an id the table never holds
AddForRows ==
  \/ Add(0, <<"b">>, <<":">>, <<BS>>, SameDraw)
  \/ Add(1, <<"b">>, <<BS, "?">>, <<"a", ":">>, SameDraw)
  \/ Add(1, <<"x">>, <<":">>, <<BS>>, SameDraw)
RemoveForRows == \E eventID \in {RandLo, RandHi} : Remove(eventID)
TickForRows == \E reading \in {<<0, 0, 0, 0>>, <<0, 0, 0, 1>>} : Tick(reading)
GetEventForRows == GetEvent(None, Some(1), None)

NextRows == AddForRows \/ RemoveForRows \/ TickForRows \/ GetEventForRows \/ ExportTimings
SpecRows == Init /\ [][NextRows]_vars

\* add calls run statement by statement, each draw any of DrawInputs, and
\* remove calls between them; a call that has begun keeps running
EnterAdd ==
  \E mode \in ModeInputs, drawn \in DrawInputs : AddEnter(0, mode, <<":">>, <<BS>>, drawn)
DrawAgain == \E drawn \in DrawInputs : AddWhile(drawn)
RemoveIdle == Idle /\ \E eventID \in {RandLo, 0} : Remove(eventID)

NextAlloc == EnterAdd \/ DrawAgain \/ AddScan \/ AddAppend \/ RemoveIdle
SpecAlloc == Init /\ [][NextAlloc]_vars /\ WF_vars(DrawAgain \/ AddScan \/ AddAppend)

\* ticks at any moment of the week, on an empty table
WeekTick == \E reading \in WeekReadings : Tick(reading)
SpecClock == InitWeek /\ [][WeekTick]_vars

-----------------------------------------------------------------------------
(* Properties *)

ids == eventSchedule[3]

\* the list with position p deleted and everything else in place
DeletedAt(before, after, p) ==
  /\ Len(after) = Len(before) - 1
  /\ \A i \in 1..(p - 1) : after[i] = before[i]
  /\ \A i \in p..Len(after) : after[i] = before[i + 1]

\* C1: after any sequence of add and remove calls on a table that started empty,
\* the eventIDs in the table are pairwise distinct, whatever the draws were.
C1_UniqueIds == \A i, j \in DOMAIN ids : i # j => ids[i] # ids[j]

\* a table holding an id of the fallback scan next to a drawn one
C1_Witness == Len(ids) >= 2 /\ InList(0, ids) /\ InList(RandLo, ids)

\* C4: after a successful add(timestamp, mode, params, sampleName) returning id,
\* getEvent(eventID=id) returns the one-element list holding
\* (timestamp, [mode, params, sampleName], id), the fields as passed to add.
C4_AddThenGetEvent ==
  (ret.op = "add" /\ ret.raised = "") =>
     getEvent(eventSchedule, ret.result, None, None)
       = ListResult(<<<<ret.timestamp, <<ret.mode, ret.params, ret.sampleName>>, ret.result[1]>>>>)

\* C5: decodeSafeEventDSC(encodeSafeEventDSC(s)) = s for every string s.
C5_RoundTrip == ret.op = "encodeSafeEventDSC" => decodeSafeEventDSC(ret.result) = ret.text

\* C8: add with a mode outside the allowed set raises, and the table, the cursor
\* and the pending serialized form are as they were before the call.
C8_InvalidModeNoMutation ==
  [][(ret'.op = "add" /\ ~InList(ret'.mode, allowedEventModes))
       => /\ ret'.raised = "ValueError"
          /\ UNCHANGED <<eventSchedule, prevTimestamp, jsonTimings>>]_vars

\* a rejected add on a table that holds events
C8_Witness == ret.op = "add" /\ ret.raised = "ValueError" /\ Len(eventSchedule[1]) >= 1

C10_RemovedNotFound ==
  (ret.op = "remove" /\ ret.raised = "") =>
     getEvent(eventSchedule, Some(ret.eventID), None, None) = NoneResult

\* a removal of a drawn id out of a table that keeps another event
C10_Witness == ret.op = "remove" /\ ret.raised = "" /\ ret.eventID = RandLo /\ Len(ids) >= 1

\* C2: tick() returns the events whose timestamp T satisfies prev < T <= now and
\* no others, one tuple (timestamp, decoded descriptor fields, eventID) per such
\* event, in table order.
C2_TickWindow ==
  ret.op = "tick" =>
     LET ts == eventSchedule[1]
         due == {i \in DOMAIN ts : ret.prev < ts[i] /\ ts[i] <= ret.now}
     IN  /\ ret.result.kind = "list"
         /\ Len(ret.result.val) = Cardinality(due)
         /\ \A k \in 1..Len(ret.result.val) :
              \* the k-th due position, counted in table order
              LET i == CHOOSE i \in due : Cardinality({j \in due : j < i}) = k - 1
              IN  ret.result.val[k] = <<ts[i], DecodedFields(eventSchedule[2][i]), ids[i]>>

\* a tick that returned two events, the later one first, as the table holds them
C2_Witness ==
  /\ ret.op = "tick"
  /\ Len(ret.result.val) >= 2
  /\ ret.result.val[1][1] > ret.result.val[2][1]

\* how often a tick's result holds the event with this id
Occurrences(result, id) == Cardinality({m \in DOMAIN result : result[m][3] = id})

\* C3: over consecutive ticks with a clock that never goes back and an unchanged
\* table, an event at T is returned by no tick twice and by no two ticks, and if
\* T lies in (cursor at the first tick, clock at the last tick] it is returned by
\* the first tick whose clock is >= T.
C3_ExactlyOnce ==
  \A i \in DOMAIN ids :
     LET T == eventSchedule[1][i]
         hits == {k \in DOMAIN tickLog : Occurrences(tickLog[k][2], ids[i]) > 0}
     IN  /\ \A k \in DOMAIN tickLog : Occurrences(tickLog[k][2], ids[i]) <= 1
         /\ Cardinality(hits) <= 1
         /\ (tickLog # <<>> /\ runLo < T /\ T <= tickLog[Len(tickLog)][1])
              => \E k \in hits : /\ tickLog[k][1] >= T
                                 /\ \A j \in 1..(k - 1) : tickLog[j][1] < T

\* a run of ticks in which the first and a later tick each returned an event
C3_Witness ==
  /\ Len(tickLog) >= 2
  /\ tickLog[1][2] # <<>>
  /\ \E k \in 2..Len(tickLog) : tickLog[k][2] # <<>> /\ tickLog[k][1] > tickLog[1][1]

\* C6: importTimings() on a fresh Schedule that holds what exportTimings() wrote
\* yields the three lists of the exporting table, element by element.
C6_ExportImport ==
  ret.op = "exportTimings" =>
     ImportOutcome(EmptySchedule, jsonTimings) = [raised |-> "", es |-> eventSchedule]

\* an export of two events, a descriptor with an escaped backslash among them
C6_Witness ==
  /\ ret.op = "exportTimings"
  /\ Len(ids) >= 2
  /\ \E i \in DOMAIN eventSchedule[2] : Contains(eventSchedule[2][i], <<BS, BS>>)

\* the pending form json cannot parse, or not three lists, or lists of different lengths
Malformed(text) ==
  LET tData == Loads(text)
  IN  \/ ~tData.ok
      \/ Len(tData.val) # 3
      \/ \E a, b \in DOMAIN tData.val : Len(tData.val[a]) # Len(tData.val[b])

\* C7: importTimings() on a malformed pending form raises and leaves the three
\* lists as they were.
C7_MalformedImportRejected ==
  [][(ret'.op = "importTimings" /\ Malformed(jsonTimings))
       => (ret'.raised # "" /\ eventSchedule' = eventSchedule)]_vars

\* C11: every eventID that add() stores is a positive integer (>= 1), on the
\* random-draw path and on the fallback scan.
C11_PositiveIds == \A i \in DOMAIN ids : ids[i] >= 1

\* C16: a tick whose clock value equals the cursor returns an empty list and
\* leaves the cursor, the table and the pending form as they were, however
\* often it is repeated.
C16_TickNoElapsed ==
  [][(ret'.op = "tick" /\ ret'.now = prevTimestamp)
       => /\ ret'.result = ListResult(<<>>)
          /\ UNCHANGED <<eventSchedule, prevTimestamp, jsonTimings>>]_vars

\* such a tick, repeated, on a table holding an event at the cursor's own timestamp
C16_Witness ==
  /\ ret.op = "tick" /\ ret.now = ret.prev
  /\ InList(prevTimestamp, eventSchedule[1])
  /\ Len(tickLog) >= 2 /\ tickLog[Len(tickLog) - 1][1] = ret.now

\* C18: encodeSafeEventDSC(s) holds no ":", so the descriptor add() stores for
\* a mode of the default allow-set splits into exactly three fields, and
\* getEvent() and tick() return a three-element list for it.
C18_ThreeFields ==
  ret.op = "encodeSafeEventDSC" =>
     /\ ~Contains(ret.result, <<":">>)
     /\ \A m \in DOMAIN allowedEventModes :
          LET o == AddOutcome(EmptySchedule, 1, allowedEventModes[m], ret.text, ret.text, SameDraw)
              got == getEvent(o.es, o.result, None, None)
              due == TickResult(o.es, 0, 1)
          IN  /\ Len(Split(o.es[2][1], ":")) = 3
              /\ got.kind = "list" /\ Len(got.val) = 1 /\ Len(got.val[1][2]) = 3
              /\ due.kind = "list" /\ Len(due.val) = 1 /\ Len(due.val[1][2]) = 3

\* an encoded text that had two colons and a backslash
C18_Witness ==
  /\ ret.op = "encodeSafeEventDSC"
  /\ Len(Split(ret.text, ":")) = 3
  /\ Contains(ret.text, <<BS>>)

\* C19 as stated: the WeeklyTimestamp of every valid clock value, hence the
\* cursor at creation and after every tick, lies in [0, 605999].
C19_RangeAsStated ==
  /\ prevTimestamp \in 0..605999
  /\ ret.op = "tick" => ret.now \in 0..605999

\* C19 amended: the WeeklyTimestamp of every valid clock value, hence the cursor
\* at creation and after every tick, lies in [0, 686399].
C19_Range ==
  /\ prevTimestamp \in 0..686399
  /\ ret.op = "tick" => ret.now \in 0..686399

\* the cursor after a tick on Sunday 23:59:59
C19_Witness == ret.op = "tick" /\ ret.reading = <<6, 23, 59, 59>> /\ prevTimestamp = 686399

\* reading a is a chronologically earlier moment of the week than reading b
Earlier(a, b) ==
  \/ a[1] < b[1]
  \/ a[1] = b[1] /\ a[2] < b[2]
  \/ a[1] = b[1] /\ a[2] = b[2] /\ a[3] < b[3]
  \/ a[1] = b[1] /\ a[2] = b[2] /\ a[3] = b[3] /\ a[4] < b[4]

\* C20: the WeeklyTimestamp encoding is injective and order-preserving: the
\* value tick computed for its reading differs from that of every other
\* reading, and is larger than that of every earlier reading.
C20_InjectiveOrdered ==
  ret.op = "tick" =>
     \A q \in WeekReadings :
        /\ q # ret.reading => WeeklyTimestamp(q) # ret.now
        /\ Earlier(q, ret.reading) => WeeklyTimestamp(q) < ret.now
        /\ Earlier(ret.reading, q) => ret.now < WeeklyTimestamp(q)

\* a tick at the first second of a day, right after the last second of the day before
C20_Witness ==
  /\ ret.op = "tick" /\ ret.reading = <<1, 0, 0, 0>>
  /\ ret.prev = WeeklyTimestamp(<<0, 23, 59, 59>>)

\* the table positions whose stored descriptor matches the pattern
MatchingPositions(pattern) ==
  {i \in DOMAIN eventSchedule[2] : Contains(eventSchedule[2][i], pattern)}

\* the events at the positions of the set pos, in table order
EventsAt(pos) ==
  [k \in 1..Cardinality(pos) |->
      EventTuple(eventSchedule, CHOOSE i \in pos : Cardinality({j \in pos : j < i}) = k - 1)]

\* the first position of the list holding x
FirstAt(x, list) == CHOOSE i \in DOMAIN list : list[i] = x /\ \A j \in 1..(i - 1) : list[j] # x

\* C12: getEvent resolves its selectors in priority order, a selector counting
\* as given when it is neither None nor falsy: an eventID given and present
\* yields the one-element list of that event; otherwise a timestamp given with
\* an exact match yields the one-element list of the first such event;
\* otherwise a regex given yields the list, possibly empty, of all events whose
\* stored descriptor matches, in table order; otherwise the result is None,
\* which is not the empty list.
C12_SelectorPriority ==
  ret.op = "getEvent" =>
     LET idGiven == ret.eventID # None /\ ret.eventID[1] # 0
         tsGiven == ret.eventTimestamp # None /\ ret.eventTimestamp[1] # 0
         reGiven == ret.eventDscRegex # None /\ ret.eventDscRegex[1] # <<>>
     IN  IF idGiven /\ InList(ret.eventID[1], ids)
         THEN ret.result =
                ListResult(<<EventTuple(eventSchedule, FirstAt(ret.eventID[1], ids))>>)
         ELSE IF tsGiven /\ InList(ret.eventTimestamp[1], eventSchedule[1])
              THEN ret.result =
                     ListResult(<<EventTuple(eventSchedule,
                                             FirstAt(ret.eventTimestamp[1], eventSchedule[1]))>>)
              ELSE IF reGiven
                   THEN ret.result = ListResult(EventsAt(MatchingPositions(ret.eventDscRegex[1])))
                   ELSE ret.result = NoneResult /\ ret.result # ListResult(<<>>)

\* all three selectors passed, the id naming the first event of the table, the
\* timestamp and the regex the second: the event of the id is returned
C12_Witness ==
  /\ ret.op = "getEvent"
  /\ ret.eventID = Some(RandLo) /\ ret.eventTimestamp = Some(3600)
  /\ ret.eventDscRegex = Some(<<"a">>)
  /\ Len(ids) = 2 /\ ids[1] = RandLo /\ eventSchedule[1] = <<0, 3600>>
  /\ MatchingPositions(<<"a">>) = {2}
  /\ ret.result.kind = "list" /\ Len(ret.result.val) = 1 /\ ret.result.val[1][3] = RandLo

\* C17: getEvent treats an eventID or eventTimestamp of 0 as not supplied: with
\* no other selector the result is None even when the table holds an event
\* with id 0 or timestamp 0, and with a regex also given the call falls through
\* to the regex search.
C17_ZeroNotSupplied ==
  (/\ ret.op = "getEvent"
   /\ ret.eventID \in {None, Some(0)} /\ ret.eventTimestamp \in {None, Some(0)}
   /\ (ret.eventID = Some(0) \/ ret.eventTimestamp = Some(0)))
     => IF ret.eventDscRegex # None /\ ret.eventDscRegex[1] # <<>>
        THEN ret.result = ListResult(EventsAt(MatchingPositions(ret.eventDscRegex[1])))
        ELSE ret.result = NoneResult

\* getEvent(eventID=0, eventTimestamp=0) answered None on a table that holds
\* an event with id 0 and an event with timestamp 0
C17_Witness ==
  /\ ret.op = "getEvent"
  /\ ret.eventID = Some(0) /\ ret.eventTimestamp = Some(0) /\ ret.eventDscRegex = None
  /\ InList(0, ids) /\ InList(0, eventSchedule[1])
  /\ ret.result = NoneResult

\* C13: the cursor is changed by tick() only: add, remove, getEvent,
\* exportTimings and importTimings leave it as it was, and every tick sets it to
\* the WeeklyTimestamp of the clock's reading, also when that is below the
\* cursor (week rollover), in which case the tick returns no events.
C13_CursorFrame ==
  [][/\ ret'.op \in {"add", "remove", "getEvent", "exportTimings", "importTimings"}
          => prevTimestamp' = prevTimestamp
     /\ ret'.op = "tick"
          => /\ ret'.now = WeeklyTimestamp(ret'.reading)
             /\ prevTimestamp' = ret'.now
             /\ ret'.now < prevTimestamp => ret'.result = ListResult(<<>>)]_vars

\* a tick whose clock went back, on a table with an event later than the old cursor
C13_Witness ==
  /\ ret.op = "tick" /\ ret.now < ret.prev
  /\ prevTimestamp = ret.now
  /\ \E i \in DOMAIN eventSchedule[1] : eventSchedule[1][i] > ret.prev

\* row i of a three-list table: what the lists hold at index i
Row(es, i) == <<es[1][i], es[2][i], es[3][i]>>

\* C14: after every add, remove, tick, getEvent and exportTimings call, raising
\* ones included, the three lists have the same length, and every row of the
\* table is a row the table had before the call or the timestamp, descriptor
\* and id of the add call just made: what one add stored stays at one index.
C14_RowsAligned ==
  [][/\ Len(eventSchedule'[1]) = Len(eventSchedule'[2])
     /\ Len(eventSchedule'[2]) = Len(eventSchedule'[3])
     /\ \A i \in DOMAIN eventSchedule'[3] :
          \/ \E j \in DOMAIN eventSchedule[3] : Row(eventSchedule', i) = Row(eventSchedule, j)
          \/ /\ ret'.op = "add" /\ ret'.raised = ""
             /\ i = Len(eventSchedule[3]) + 1
             /\ Row(eventSchedule', i) =
                  <<ret'.timestamp, Descriptor(ret'.mode, ret'.params, ret'.sampleName),
                    ret'.result[1]>>]_vars

\* a table whose first event was removed while a later one stayed, then grown
\* again, after a call that raised
C14_Witness ==
  /\ Len(ids) = 2 /\ ids[1] = 0 /\ ids[2] = RandLo
  /\ eventSchedule[1][1] # eventSchedule[1][2]
  /\ ret.op \in {"add", "remove"} /\ ret.raised = "ValueError"

\* the id list as it was before the id of the add call just returned was appended
IdsBefore == SubSeq(ids, 1, Len(ids) - 1)

\* C15: every add with an allowed mode terminates and returns an id, whatever
\* the draws are: the loops are bounded (at most 100 draws are tested, the scan
\* passes no more integers than the table holds ids), a running call reaches
\* its return, a drawn value is returned only when the table did not hold it,
\* after 100 failed draws the smallest non-negative integer not in the table is
\* returned, and the ids of the table stay distinct.
C15_AddTerminates ==
  /\ [](Running => ret.n <= MaxTries + 1 /\ ret.i <= Len(ids))
  /\ (Running ~> (ret.op = "add" /\ ret.pc = "return" /\ ret.result # None))
  /\ []((ret.op = "add" /\ ret.pc = "return" /\ ret.raised = "")
          => /\ ret.result # None /\ ids[Len(ids)] = ret.result[1]
             /\ ~InList(ret.result[1], IdsBefore)
             /\ \A a, b \in DOMAIN ids : a # b => ids[a] # ids[b]
             /\ IF ret.n > MaxTries
                THEN /\ ret.result[1] >= 0
                     /\ \A k \in 0..(ret.result[1] - 1) : InList(k, IdsBefore)
                ELSE ret.result[1] \in RandLo..RandHi)

\* an add returned 1 from the fallback scan: every tested draw was in the table,
\* and so was 0
C15_Witness ==
  /\ ret.op = "add" /\ ret.pc = "return" /\ ret.raised = ""
  /\ ret.n = MaxTries + 1 /\ ret.i = 1
  /\ ret.result = Some(1) /\ InList(0, IdsBefore)

====
